---- MODULE Spec2Model ----
(***************************************************************************)
(* Model of files_finder_by_date.py: the FilesFinderByDate class.          *)
(*                                                                         *)
(* Time is counted in ticks; a second has TicksPerSec ticks (the           *)
(* sub-second part of a float timestamp / the microsecond field of a       *)
(* datetime) and a day has SecsPerDay seconds.  A datetime is a record     *)
(* [day, sec, sub]; a timestamp is a number of ticks.                      *)
(***************************************************************************)
EXTENDS Integers, Sequences, FiniteSets, TLC

\* ---------------------------------------------------------------- bounds
TicksPerSec == 2
SecsPerDay == 2
MaxRuns == 2
MaxDeletes == 1

\* ------------------------------------------------------ program constants
\* datetime.timedelta(days=7)
DefaultDaysBack == 7

TicksPerDay == SecsPerDay * TicksPerSec

\* ------------------------------------------------------------- datetime
\* datetime.timestamp(): the float timestamp of a datetime
Timestamp(dt) == (dt.day * SecsPerDay + dt.sec) * TicksPerSec + dt.sub

\* datetime.datetime.now() when the clock shows tick t
DatetimeNow(t) ==
    [day |-> t \div TicksPerDay,
     sec |-> (t % TicksPerDay) \div TicksPerSec,
     sub |-> t % TicksPerSec]

\* time.ctime(t): the textual form keeps whole seconds only
ctime(t) == [day |-> t \div TicksPerDay, sec |-> (t % TicksPerDay) \div TicksPerSec]

\* A date argument is None, the empty string, a "YYYY-MM-DD" string or a
\* "YYYY-MM-DD HH:MM:SS" string.
NoneDate == [kind |-> "None", day |-> 0, sec |-> 0]
EmptyDate == [kind |-> "empty", day |-> 0, sec |-> 0]
DateStr(d) == [kind |-> "date", day |-> d, sec |-> 0]
DateTimeStr(d, s) == [kind |-> "datetime", day |-> d, sec |-> s]

\* truthiness of a date argument: `if start_date`
Truthy(s) == s.kind \in {"date", "datetime"}

\* date_format = '%Y-%m-%d' if not include_time else '%Y-%m-%d %H:%M:%S'
date_format(include_time) == IF include_time THEN "datetime" ELSE "date"

\* strptime raises ValueError when the string does not have the format
StrptimeOk(s, fmt) == s.kind = fmt

strptime(s, fmt) == [day |-> s.day, sec |-> s.sec, sub |-> 0]

\* ----------------------------------------------------------- extensions
\* An extension string: stem, whether it is written in upper case and
\* whether it starts with a dot (".TXT", "md").
ExtStr(dot, stem, upper) == [dot |-> dot, stem |-> stem, upper |-> upper]

\* str.lower()
lower(e) == [e EXCEPT !.upper = FALSE]

\* f"{'.' if not ext.startswith('.') else ''}{ext.lower()}"
NormaliseExt(e) == [lower(e) EXCEPT !.dot = TRUE]

\* the extensions argument: None, or an iterable of extension strings
NoneExts == [none |-> TRUE, items |-> {}]
Exts(S) == [none |-> FALSE, items |-> S]

\* ---------------------------------------------------------- constructor
\* FilesFinderByDate.__init__: now1 and now2 are the two readings of
\* datetime.datetime.now() (only read when the bound is omitted).
ValueErrorInInit(a) ==
    \/ Truthy(a.start_date) /\ ~StrptimeOk(a.start_date, date_format(a.include_time))
    \/ Truthy(a.end_date) /\ ~StrptimeOk(a.end_date, date_format(a.include_time))

\* a constructor that pads the end of the day only when end_date is given
EndDateOf_PadsOnlyGiven(a, now2) ==
    IF Truthy(a.end_date)
    THEN LET e == strptime(a.end_date, date_format(a.include_time))
         IN  IF ~a.include_time THEN [e EXCEPT !.sec = SecsPerDay - 1] ELSE e
    ELSE DatetimeNow(now2)

StartDateOf(a, now1) ==
    IF Truthy(a.start_date)
    THEN strptime(a.start_date, date_format(a.include_time))
    ELSE [day |-> DatetimeNow(now1).day - DefaultDaysBack, sec |-> 0, sub |-> 0]

EndDateOf(a, now2) ==
    LET e == IF Truthy(a.end_date)
             THEN strptime(a.end_date, date_format(a.include_time))
             ELSE DatetimeNow(now2)
    IN  IF ~a.include_time THEN [e EXCEPT !.sec = SecsPerDay - 1] ELSE e

InitObject(a, now1, now2) ==
    [output_info_to |-> a.output_info_to,
     start_date |-> StartDateOf(a, now1),
     end_date |-> EndDateOf(a, now2),
     sort_info |-> a.sort_info,
     has_extensions |-> ~a.extensions.none /\ a.extensions.items # {},
     extensions |-> {NormaliseExt(e) : e \in a.extensions.items}]

\* ---------------------------------------------------------- file system
\* Directories: the root, one sub-directory of it, and one directory that
\* is not under the root.
Subdirs(d) == IF d = "root" THEN <<"sub">> ELSE <<>>

DirPath(d) == CASE d = "root" -> <<1>> [] d = "sub" -> <<1, 2>> [] OTHER -> <<2>>

UserFiles == {"a.md", "b.TXT"}
Reports == {"founded_table.txt", "founded_list_sorted.txt", "founded_table_sorted.txt"}
Files == UserFiles \cup Reports

\* a path is a string, modelled as the sequence of its characters' ranks
FileName(f) ==
    CASE f = "a.md" -> <<1>>
      [] f = "b.TXT" -> <<1>>
      [] f = "founded_list_sorted.txt" -> <<3, 1>>
      [] f = "founded_table.txt" -> <<3, 2>>
      [] OTHER -> <<3, 2, 1>>

\* os.path.splitext(file_path)[1]
splitext(f) ==
    CASE f = "a.md" -> ExtStr(TRUE, "md", FALSE)
      [] f = "b.TXT" -> ExtStr(TRUE, "txt", TRUE)
      [] OTHER -> ExtStr(TRUE, "txt", FALSE)

UserDir(f) == IF f = "a.md" THEN "root" ELSE "sub"

\* comparison of two strings (str.__lt__)
StrLess(s, t) ==
    \/ Len(s) < Len(t) /\ \A i \in 1..Len(s) : s[i] = t[i]
    \/ \E i \in 1..Len(s) :
          /\ i <= Len(t)
          /\ s[i] < t[i]
          /\ \A j \in 1..(i - 1) : s[j] = t[j]

Absent == [exists |-> FALSE, mtime |-> 0, ctime |-> 0, atime |-> 0]

VARIABLES
    self,            \* the FilesFinderByDate object
    given,           \* the constructor's arguments and its two clock readings
    clock,           \* the system clock, in ticks
    fs,              \* file -> [exists, mtime, ctime, atime]
    content,         \* report file -> sequence of text items
    pc,              \* position of find_files
    error,           \* the exception that ended the run, or "none"
    dirs_todo,       \* os.walk: directories still to list
    files_todo,      \* files of the current directory still to visit, in order
    file,            \* _walker: the loop variable
    stat,            \* _walker: ctime, mtime, atime read so far
    files_founded,   \* _walker: files_founded
    files_list,      \* _walker: files_list
    starting_at,     \* find_files: the datetime.now() inside starting_text
    printed,         \* the summary prints, one count per finished run
    runs,            \* number of find_files calls so far
    deletes,         \* number of files removed by other processes
    hist             \* bookkeeping about the current run, for the properties

vars == <<self, given, clock, fs, content, pc, error, dirs_todo, files_todo,
          file, stat, files_founded, files_list, starting_at, printed, runs,
          deletes, hist>>

\* self._output_info_to after find_files resolved it (lines 168-175)
OutDir == IF self.output_info_to = "None" THEN "root" ELSE self.output_info_to

DirOf(f) == IF f \in Reports THEN OutDir ELSE UserDir(f)

\* os.path.join(root, file)
file_path(f) == DirPath(DirOf(f)) \o FileName(f)

\* ------------------------------------------------------ writing to files
\* the state of a file's metadata after a write at the current instant
WrittenAt(f, first, last) ==
    IF fs[f].exists
    THEN [fs[f] EXCEPT !.mtime = last, !.ctime = last]
    ELSE [exists |-> TRUE, mtime |-> last, ctime |-> last, atime |-> first]

Written(f) == WrittenAt(f, clock, clock)

\* starting_text (lines 179-183); the list report drops the column legend
Header(at, legend) ==
    [kind |-> "header", at |-> at, start |-> self.start_date,
     end |-> self.end_date, legend |-> legend]

Separator == [kind |-> "separator"]

\* a header written with 'w' whether or not the file exists
WithHeader_Truncates(old, exists, at, legend) == <<Header(at, legend)>>

\* lines 184-189, 198-209: write the header to a new file ('w'), or append
\* it after "\n\n\n" to an existing one ('a')
WithHeader(old, exists, at, legend) ==
    IF ~exists
    THEN <<Header(at, legend)>>
    ELSE old \o <<Separator, Header(at, legend)>>

\* lines 138-141: one line of the primary report
TableLine(path, mtime, ctime_, atime) ==
    [kind |-> "line", file |-> path, mtime |-> ctime(mtime),
     ctime |-> ctime(ctime_), atime |-> ctime(atime)]

\* ----------------------------------------------------------------- sorter
\* A match record is the tuple (file_path, mtime, ctime, atime); Python
\* numbers its fields 0..3, the model 1..4.
\* a key that puts the modification time first: itemgetter(1, 2, 3, 0)
SortKey_MtimeFirst(i) == <<i[2], i[3], i[4], i[1]>>

\* itemgetter(2, 1, 3, 0)
SortKey(i) == <<i[3], i[2], i[4], i[1]>>

\* tuple comparison of two sort keys
KeyLess(k, l) ==
    \/ k[1] < l[1]
    \/ k[1] = l[1] /\ k[2] < l[2]
    \/ k[1] = l[1] /\ k[2] = l[2] /\ k[3] < l[3]
    \/ k[1] = l[1] /\ k[2] = l[2] /\ k[3] = l[3] /\ StrLess(k[4], l[4])

\* insert x behind every element that is not greater (list.sort is stable)
RECURSIVE Insert(_, _)
Insert(x, s) ==
    IF s = <<>> THEN <<x>>
    ELSE IF KeyLess(SortKey(x), SortKey(Head(s))) THEN <<x>> \o s
    ELSE <<Head(s)>> \o Insert(x, Tail(s))

\* files_list.sort(key=itemgetter(2, 1, 3, 0))
RECURSIVE Sorted(_)
Sorted(s) == IF s = <<>> THEN <<>> ELSE Insert(s[Len(s)], Sorted(SubSeq(s, 1, Len(s) - 1)))

\* lines 152-155: the entry of the sorted list report
ListEntry(i) ==
    [kind |-> "entry", file |-> i[1], created |-> ctime(i[3]),
     modified |-> ctime(i[2]), accessed |-> ctime(i[4])]

\* lines 156-159: the line of the sorted table report
SortedTableLine(i) ==
    [kind |-> "wide_line", file |-> i[1], mtime |-> ctime(i[3]),
     ctime |-> ctime(i[2]), atime |-> ctime(i[4])]

\* ------------------------------------------------------------ the window
\* a window test that lets the bounds themselves in
InWindow_Inclusive(start_date, end_date, mtime, ctime_, atime) ==
    \/ start_date <= mtime /\ mtime <= end_date
    \/ start_date <= ctime_ /\ ctime_ <= end_date
    \/ start_date <= atime /\ atime <= end_date

\* lines 131-133
InWindow(start_date, end_date, mtime, ctime_, atime) ==
    \/ start_date < mtime /\ mtime < end_date
    \/ start_date < ctime_ /\ ctime_ < end_date
    \/ start_date < atime /\ atime < end_date

NoStat == [ctime |-> 0, mtime |-> 0, atime |-> 0]

NoHist ==
    [table_from |-> 0, list_from |-> 0, sorted_from |-> 0,
     list_before |-> <<>>, sorted_before |-> <<>>,
     inspected |-> {}, tested |-> {}, vanished |-> {}, unlisted |-> {},
     matched |-> <<>>, table_written |-> 0, seen_write |-> 0,
     deleted_at |-> "none"]

\* ------------------------------------------------------------ find_files
\* lines 167-191 and 112-116: resolve the folders, write the header of the
\* primary report and start the walk
FindFilesBegin ==
    /\ pc \in {"ready", "done"}
    /\ runs < MaxRuns
    /\ LET t == "founded_table.txt" IN
        /\ content' = [content EXCEPT
              ![t] = WithHeader(content[t], fs[t].exists, clock, TRUE)]
        /\ fs' = [fs EXCEPT ![t] = Written(t)]
        /\ hist' = [NoHist EXCEPT
              !.table_from = Len(content'[t]),
              !.list_from = Len(content["founded_list_sorted.txt"]),
              !.sorted_from = Len(content["founded_table_sorted.txt"]),
              !.list_before = content["founded_list_sorted.txt"],
              !.sorted_before = content["founded_table_sorted.txt"],
              !.table_written = clock]
    /\ starting_at' = clock
    /\ clock' = clock + 1
    /\ runs' = runs + 1
    /\ pc' = "walk"
    /\ error' = "none"
    /\ dirs_todo' = <<"root">>
    /\ files_todo' = <<>>
    /\ file' = "none"
    /\ stat' = NoStat
    /\ files_founded' = 0
    /\ files_list' = <<>>
    /\ UNCHANGED <<self, given, printed, deletes>>

\* a listing that leaves the report files out
Listing_WithoutReports(d) == {f \in UserFiles : DirOf(f) = d /\ fs[f].exists}

\* the files os.walk finds in directory d
Listing(d) == {f \in Files : DirOf(f) = d /\ fs[f].exists}

\* The order in which the listing yields the files is the file system's:
\* ascending or descending by name.
RECURSIVE Ascending(_)
Ascending(S) ==
    IF S = {} THEN <<>>
    ELSE LET f == CHOOSE x \in S :
                     \A y \in S \ {x} : StrLess(FileName(x), FileName(y))
         IN  <<f>> \o Ascending(S \ {f})

Reverse(s) == [k \in 1..Len(s) |-> s[Len(s) + 1 - k]]

ListingOrders(d) == {Ascending(Listing(d)), Reverse(Ascending(Listing(d)))}

\* line 117: os.walk lists the next directory.  os.walk is called without
\* onerror, so a directory whose listing raises OSError is dropped.
WalkNextDir ==
    /\ pc = "walk"
    /\ files_todo = <<>>
    /\ dirs_todo # <<>>
    /\ LET d == Head(dirs_todo) IN
        \/ /\ files_todo' \in ListingOrders(d)
           /\ dirs_todo' = Subdirs(d) \o Tail(dirs_todo)
           /\ hist' = hist
        \/ /\ d # "root"
           /\ files_todo' = <<>>
           /\ dirs_todo' = Tail(dirs_todo)
           /\ hist' = [hist EXCEPT !.unlisted = @ \cup {d}]
    /\ UNCHANGED <<self, given, clock, fs, content, pc, error, file, stat,
                   files_founded, files_list, starting_at, printed, runs, deletes>>

\* lines 118-124: the next file of the listing; skipped when it is gone
ForFile ==
    /\ pc = "walk"
    /\ files_todo # <<>>
    /\ LET f == Head(files_todo) IN
        /\ files_todo' = Tail(files_todo)
        /\ IF fs[f].exists
           THEN /\ pc' = "getctime"
                /\ file' = f
                /\ hist' = hist
           ELSE /\ pc' = "walk"
                /\ file' = "none"
                /\ hist' = [hist EXCEPT !.vanished = @ \cup {f}]
    /\ stat' = NoStat
    /\ UNCHANGED <<self, given, clock, fs, content, error, dirs_todo,
                   files_founded, files_list, starting_at, printed, runs, deletes>>

\* os.path.getctime / getmtime / getatime raise FileNotFoundError when the
\* file is gone
StatFails ==
    /\ pc' = "failed"
    /\ error' = "FileNotFoundError"
    /\ UNCHANGED <<self, given, clock, fs, content, dirs_todo, files_todo, file,
                   stat, files_founded, files_list, starting_at, printed, runs,
                   deletes, hist>>

\* lines 125-126
GetCtime ==
    /\ pc = "getctime"
    /\ IF fs[file].exists
       THEN /\ stat' = [stat EXCEPT !.ctime = fs[file].ctime]
            /\ pc' = "getmtime"
            /\ UNCHANGED <<self, given, clock, fs, content, error, dirs_todo,
                           files_todo, file, files_founded, files_list,
                           starting_at, printed, runs, deletes, hist>>
       ELSE StatFails

\* line 127
GetMtime ==
    /\ pc = "getmtime"
    /\ IF fs[file].exists
       THEN /\ stat' = [stat EXCEPT !.mtime = fs[file].mtime]
            /\ pc' = "getatime"
            /\ hist' = [hist EXCEPT !.seen_write =
                  IF file = "founded_table.txt" THEN hist.table_written ELSE @]
            /\ UNCHANGED <<self, given, clock, fs, content, error, dirs_todo,
                           files_todo, file, files_founded, files_list,
                           starting_at, printed, runs, deletes>>
       ELSE StatFails

\* line 128
GetAtime ==
    /\ pc = "getatime"
    /\ IF fs[file].exists
       THEN /\ stat' = [stat EXCEPT !.atime = fs[file].atime]
            /\ pc' = "filter"
            /\ hist' = [hist EXCEPT !.inspected = @ \cup
                  {[file |-> file, mtime |-> stat.mtime,
                    ctime |-> stat.ctime, atime |-> fs[file].atime]}]
            /\ UNCHANGED <<self, given, clock, fs, content, error, dirs_todo,
                           files_todo, file, files_founded, files_list,
                           starting_at, printed, runs, deletes>>
       ELSE StatFails

\* a line written with 'w': it replaces what the report held
AppendLine_Overwrites(old, line) == <<line>>

\* lines 137-141: open(write_file, 'a') and write one line
AppendLine(old, line) == Append(old, line)

\* line 129: the file's extension is not in the filter
ExtensionSkips(f) == lower(splitext(f)) \notin self.extensions

\* lines 129-141.  __init__ sets self._extensions only when the argument is
\* a non-empty iterable; reading the missing attribute raises AttributeError.
FilterAndMatch ==
    /\ pc = "filter"
    /\ IF ~self.has_extensions
       THEN /\ pc' = "failed"
            /\ error' = "AttributeError"
            /\ UNCHANGED <<clock, fs, content, files_founded, files_list, hist>>
       ELSE IF ExtensionSkips(file)
       THEN /\ pc' = "walk"
            /\ UNCHANGED <<clock, fs, content, error, files_founded, files_list, hist>>
       ELSE IF InWindow(Timestamp(self.start_date), Timestamp(self.end_date),
                        stat.mtime, stat.ctime, stat.atime)
       THEN /\ files_founded' = files_founded + 1
            /\ files_list' =
                  IF self.sort_info
                  THEN Append(files_list,
                              <<file_path(file), stat.mtime, stat.ctime, stat.atime>>)
                  ELSE files_list
            /\ content' = [content EXCEPT !["founded_table.txt"] =
                  AppendLine(@, TableLine(file_path(file), stat.mtime, stat.ctime,
                                          stat.atime))]
            /\ fs' = [fs EXCEPT !["founded_table.txt"] = Written("founded_table.txt")]
            /\ clock' = clock + 1
            /\ hist' = [hist EXCEPT !.tested = @ \cup {file},
                                    !.matched = Append(@, file),
                                    !.table_written = clock]
            /\ pc' = "walk"
            /\ error' = error
       ELSE /\ hist' = [hist EXCEPT !.tested = @ \cup {file}]
            /\ pc' = "walk"
            /\ UNCHANGED <<clock, fs, content, error, files_founded, files_list>>
    /\ UNCHANGED <<self, given, dirs_todo, files_todo, file, stat, starting_at,
                   printed, runs, deletes>>

\* lines 142, 191-193: the walk is over
WalkerReturn ==
    /\ pc = "walk"
    /\ files_todo = <<>>
    /\ dirs_todo = <<>>
    /\ pc' = IF self.sort_info THEN "sort" ELSE "print"
    /\ UNCHANGED <<self, given, clock, fs, content, error, dirs_todo, files_todo,
                   file, stat, files_founded, files_list, starting_at, printed,
                   runs, deletes, hist>>

\* lines 151-165: the text _sorter appends to the list report and to the
\* table report, one item per record
infos_list(s) == [k \in 1..Len(s) |-> ListEntry(s[k])]

infos_table(s) == [k \in 1..Len(s) |-> SortedTableLine(s[k])]

\* lines 193-210 and _sorter (145-165): the headers of the two sorted
\* reports, then the sorted entries; four writes at consecutive instants
SortReports ==
    /\ pc = "sort"
    /\ LET l == "founded_list_sorted.txt"
           t == "founded_table_sorted.txt"
           sorted == Sorted(files_list)
       IN  /\ files_list' = sorted
           /\ content' = [content EXCEPT
                 ![l] = WithHeader(@, fs[l].exists, starting_at, FALSE)
                          \o infos_list(sorted),
                 ![t] = WithHeader(@, fs[t].exists, starting_at, TRUE)
                          \o infos_table(sorted)]
           /\ fs' = [fs EXCEPT ![l] = WrittenAt(l, clock, clock + 2),
                               ![t] = WrittenAt(t, clock + 1, clock + 3)]
    /\ clock' = clock + 4
    /\ pc' = "print"
    /\ UNCHANGED <<self, given, error, dirs_todo, files_todo, file, stat,
                   files_founded, starting_at, printed, runs, deletes, hist>>

\* lines 212-213
PrintSummary ==
    /\ pc = "print"
    /\ printed' = Append(printed, files_founded)
    /\ pc' = "done"
    /\ UNCHANGED <<self, given, clock, fs, content, error, dirs_todo, files_todo,
                   file, stat, files_founded, files_list, starting_at, runs,
                   deletes, hist>>

\* ----------------------------------------------------------- environment
\* another process deletes or moves a file that the walk has listed and
\* has not yet inspected completely
DeleteFile ==
    /\ pc \in {"walk", "getctime", "getmtime", "getatime"}
    /\ deletes < MaxDeletes
    /\ \E f \in UserFiles :
        /\ (\E k \in DOMAIN files_todo : files_todo[k] = f) \/ (f = file /\ pc # "walk")
        /\ fs[f].exists
        /\ fs' = [fs EXCEPT ![f] = Absent]
        /\ hist' = [hist EXCEPT !.deleted_at = IF f = file THEN pc ELSE "listed"]
    /\ deletes' = deletes + 1
    /\ UNCHANGED <<self, given, clock, content, pc, error, dirs_todo, files_todo,
                   file, stat, files_founded, files_list, starting_at, printed, runs>>

\* ------------------------------------------------------- initial states
NowDay == DefaultDaysBack + 1

Args(start_date, end_date, include_time, output_info_to, extensions, sort_info) ==
    [start_date |-> start_date, end_date |-> end_date,
     include_time |-> include_time, output_info_to |-> output_info_to,
     extensions |-> extensions, sort_info |-> sort_info]

TXT == ExtStr(FALSE, "txt", TRUE)
DotMd == ExtStr(TRUE, "md", FALSE)

\* the windows of the runs that are explored
WindowArgs ==
    {<<NoneDate, NoneDate, FALSE>>,
     <<NoneDate, NoneDate, TRUE>>,
     <<DateStr(NowDay - 1), DateStr(NowDay + 1), FALSE>>}

ExtensionArgs == {NoneExts, Exts({}), Exts({TXT}), Exts({DotMd}), Exts({DotMd, TXT})}

RunArgs ==
    {Args(w[1], w[2], w[3], o, e, s) :
        w \in WindowArgs, o \in {"None", "sub", "elsewhere"},
        e \in ExtensionArgs, s \in BOOLEAN}

\* the timestamps (mtime, ctime, atime) a file may have, relative to the
\* window (lo, up): on a bound, just inside, outside
Stamps(f, lo, up) ==
    IF f = "a.md"
    THEN {<<lo, lo - 1, up + 1>>,
          <<up + 1, up, lo - 1>>,
          <<lo + 1, up + 1, lo - 1>>,
          <<up + TicksPerSec, lo + 1, lo + 1>>,
          <<lo - 1, up + 1, up + 1>>,
          <<lo + 1, lo + 1, lo + 1>>}
    ELSE {<<up + 1, up, lo - 1>>,
          <<up + TicksPerSec, lo + 1, lo + 1>>,
          <<lo - 1, up + 1, up + 1>>}

Idle ==
    /\ error = "none"
    /\ dirs_todo = <<>>
    /\ files_todo = <<>>
    /\ file = "none"
    /\ stat = NoStat
    /\ files_founded = 0
    /\ files_list = <<>>
    /\ starting_at = 0
    /\ printed = <<>>
    /\ runs = 0
    /\ deletes = 0
    /\ hist = NoHist
    /\ content = [r \in Reports |-> <<>>]

\* an object has been constructed; the user's files have any of the
\* timestamps above and no report exists yet
Init ==
    /\ \E a \in RunArgs, now \in {NowDay * TicksPerDay + 1} :
        /\ ~ValueErrorInInit(a)
        /\ given = [args |-> a, now1 |-> now, now2 |-> now]
        /\ self = InitObject(a, now, now)
        /\ clock = now
    /\ \E st \in [UserFiles -> Stamps("a.md", Timestamp(self.start_date),
                                        Timestamp(self.end_date))] :
        /\ \A f \in UserFiles :
              st[f] \in Stamps(f, Timestamp(self.start_date), Timestamp(self.end_date))
        /\ fs = [f \in Files |->
                IF f \in UserFiles
                THEN [exists |-> TRUE, mtime |-> st[f][1], ctime |-> st[f][2],
                      atime |-> st[f][3]]
                ELSE Absent]
    /\ pc = "ready"
    /\ Idle

\* ------------------------------------------ the constructor on its own
NoObject == InitObject(Args(NoneDate, NoneDate, TRUE, "None", NoneExts, FALSE), 0, 0)

NoGiven == [args |-> Args(NoneDate, NoneDate, TRUE, "None", NoneExts, FALSE),
            now1 |-> 0, now2 |-> 0]

ConstructArgs ==
    {Args(s, e, t, "None", x, FALSE) :
        s \in {NoneDate, EmptyDate, DateStr(1), DateTimeStr(1, 1)},
        e \in {NoneDate, EmptyDate, DateStr(NowDay), DateTimeStr(NowDay, 0)},
        t \in BOOLEAN,
        x \in {NoneExts, Exts({DotMd, TXT})}}

\* no object yet; the clock shows any instant of one day
InitNew ==
    /\ clock \in (NowDay * TicksPerDay)..(NowDay * TicksPerDay + TicksPerDay - 1)
    /\ self = NoObject
    /\ given = NoGiven
    /\ fs = [f \in Files |-> Absent]
    /\ pc = "new"
    /\ Idle

\* lines 83-109: FilesFinderByDate(...); the clock may advance between the
\* two readings of datetime.datetime.now()
Construct ==
    /\ pc = "new"
    /\ \E a \in ConstructArgs, now2 \in {clock, clock + 1} :
        /\ given' = [args |-> a, now1 |-> clock, now2 |-> now2]
        /\ clock' = now2
        /\ IF ValueErrorInInit(a)
           THEN /\ pc' = "failed"
                /\ error' = "ValueError"
                /\ self' = self
           ELSE /\ pc' = "ready"
                /\ error' = error
                /\ self' = InitObject(a, clock, now2)
    /\ UNCHANGED <<fs, content, dirs_todo, files_todo, file, stat, files_founded,
                   files_list, starting_at, printed, runs, deletes, hist>>

SpecInit == InitNew /\ [][Construct]_vars

Next ==
    \/ FindFilesBegin
    \/ WalkNextDir
    \/ ForFile
    \/ GetCtime
    \/ GetMtime
    \/ GetAtime
    \/ FilterAndMatch
    \/ WalkerReturn
    \/ SortReports
    \/ PrintSummary
    \/ DeleteFile

Spec == Init /\ [][Next]_vars

\* ======================================================================
\* Properties
\* ======================================================================
Lo == Timestamp(self.start_date)
Up == Timestamp(self.end_date)

IsRecord(item) == item.kind \in {"line", "wide_line", "entry"}

\* what this run has added to the primary report behind its header
TableBlock ==
    SubSeq(content["founded_table.txt"], hist.table_from + 1,
           Len(content["founded_table.txt"]))

\* what this run has added to the two sorted reports
ListBlock ==
    SubSeq(content["founded_list_sorted.txt"], hist.list_from + 1,
           Len(content["founded_list_sorted.txt"]))

SortedBlock ==
    SubSeq(content["founded_table_sorted.txt"], hist.sorted_from + 1,
           Len(content["founded_table_sorted.txt"]))

\* number of records about file f in a piece of report text
Records(text, f) ==
    Cardinality({k \in DOMAIN text : IsRecord(text[k]) /\ text[k].file = file_path(f)})

\* the records of a piece of report text, in order
RECURSIVE RecordsOf(_)
RecordsOf(text) ==
    IF text = <<>> THEN <<>>
    ELSE IF IsRecord(Head(text)) THEN <<Head(text)>> \o RecordsOf(Tail(text))
    ELSE RecordsOf(Tail(text))

\* the walk has dealt with file f completely
Finished(f) == f # file \/ pc \notin {"getctime", "getmtime", "getatime", "filter", "failed"}

StrictlyInside(r) ==
    \/ Lo < r.mtime /\ r.mtime < Up
    \/ Lo < r.ctime /\ r.ctime < Up
    \/ Lo < r.atime /\ r.atime < Up

\* the configured filter names the file's extension, whatever the case and
\* with or without the leading dot
Admitted(f) == \E e \in given.args.extensions.items : e.stem = splitext(f).stem

IsPrefix(s, t) == Len(s) <= Len(t) /\ SubSeq(t, 1, Len(s)) = s

\* ----------------------------------------------------------------- C1
\* C1: a file that the walk listed, that existed when inspected and that
\* the extension test of line 129 let through has exactly one line in this
\* run's part of the primary report, and is counted, if and only if one of
\* its three timestamps lies strictly between the bounds; otherwise it has
\* none.  A file whose extension a configured filter does not name has no
\* record in any report of the run.
C1_MatchRule ==
    /\ \A r \in hist.inspected :
          Finished(r.file) =>
             /\ (self.has_extensions /\ Admitted(r.file)) => r.file \in hist.tested
             /\ Records(TableBlock, r.file) =
                   (IF r.file \in hist.tested /\ StrictlyInside(r) THEN 1 ELSE 0)
             /\ (~(r.file \in hist.tested /\ StrictlyInside(r))) =>
                   Records(ListBlock, r.file) + Records(SortedBlock, r.file) = 0
    /\ \A f \in Files :
          (self.has_extensions /\ ~Admitted(f)) =>
             Records(TableBlock, f) + Records(ListBlock, f) + Records(SortedBlock, f) = 0
    /\ files_founded = Len(TableBlock)

\* a file with its only candidate timestamp on a bound has been passed
\* over, and another file has been reported
C1_Witness ==
    /\ files_founded >= 1
    /\ \E r \in hist.inspected :
          /\ Finished(r.file)
          /\ r.file \in hist.tested
          /\ r.mtime = Lo \/ r.ctime = Up
          /\ ~StrictlyInside(r)
          /\ Records(TableBlock, r.file) = 0

\* ----------------------------------------------------------------- C2
\* C2: with no extension filter (None or empty) find_files runs to its end
\* and every existing file with a timestamp strictly inside the window has
\* exactly one line in the primary report.
C2_NoFilterMatchesAll ==
    (/\ given.args.extensions.items = {}
     /\ pc \in {"done", "failed"}
     /\ deletes = 0
     /\ hist.unlisted = {})
    => /\ pc = "done"
       /\ \A f \in UserFiles :
             StrictlyInside(fs[f]) => Records(TableBlock, f) = 1

\* ----------------------------------------------------------------- C3
\* what a step adds to report r
Added(r) == SubSeq(content'[r], Len(content[r]) + 1, Len(content'[r]))

\* the shape of what a step may add to a report that held old
Framed(old, new) ==
    \/ new = <<>>
    \/ /\ Len(new) = 1
       /\ new[1].kind = "line"
       /\ old[hist.table_from].kind = "header"
       /\ old[hist.table_from].at = starting_at
    \/ /\ old = <<>>
       /\ Len(new) >= 1
       /\ new[1].kind = "header"
       /\ new[1].at = starting_at'
       /\ \A k \in 2..Len(new) : IsRecord(new[k])
    \/ /\ old # <<>>
       /\ Len(new) >= 2
       /\ new[1] = Separator
       /\ new[2].kind = "header"
       /\ new[2].at = starting_at'
       /\ \A k \in 3..Len(new) : IsRecord(new[k])

\* C3: every step leaves the old content of each report file as a prefix
\* of the new content; what a step adds is either one line behind this
\* run's header, or a header (behind a separator when the file already had
\* content) followed by records only.
C3_AppendOnly ==
    [][\A r \in Reports :
          /\ IsPrefix(content[r], content'[r])
          /\ Framed(content[r], Added(r))]_vars

\* a second run has appended to a primary and a sorted report that the
\* first run had filled with records
C3_Witness ==
    /\ runs = 2
    /\ pc = "done"
    /\ hist.table_from > 3
    /\ Len(hist.sorted_before) > 1
    /\ Len(content["founded_table_sorted.txt"]) > Len(hist.sorted_before) + 2

\* ----------------------------------------------------------------- C4
\* two consecutive records are in the order of the sort key
Ordered(x, y) ==
    /\ x[3] <= y[3]
    /\ x[3] = y[3] => x[2] <= y[2]
    /\ (x[3] = y[3] /\ x[2] = y[2]) => x[4] <= y[4]
    /\ (x[3] = y[3] /\ x[2] = y[2] /\ x[4] = y[4]) => (x[1] = y[1] \/ StrLess(x[1], y[1]))

PathsOf(text) == [k \in 1..Len(RecordsOf(text)) |-> RecordsOf(text)[k].file]

\* C4: after the sort pass the records are in ascending order of (creation
\* time, modification time, access time, path), and both sorted reports
\* list the files in that order.
C4_SortOrder ==
    (self.sort_info /\ pc \in {"print", "done"}) =>
       /\ Len(files_list) = files_founded
       /\ \A k \in 1..(Len(files_list) - 1) : Ordered(files_list[k], files_list[k + 1])
       /\ PathsOf(SortedBlock) = [k \in 1..Len(files_list) |-> files_list[k][1]]
       /\ PathsOf(ListBlock) = [k \in 1..Len(files_list) |-> files_list[k][1]]

\* three or more records were sorted, two of them created at the same
\* instant and told apart by their modification times
C4_Witness ==
    /\ self.sort_info
    /\ pc = "done"
    /\ Len(files_list) >= 3
    /\ \E k \in 1..(Len(files_list) - 1) :
          /\ files_list[k][3] = files_list[k + 1][3]
          /\ files_list[k][2] < files_list[k + 1][2]

\* ----------------------------------------------------------------- C5
\* C5: the lines a run adds to the sorted table report show, for every
\* file, under mtime=, ctime= and atime= the values that the file's line of
\* the primary report shows under the same labels, and both reports name
\* the same files.
C5_SameFields ==
    (self.sort_info /\ pc \in {"print", "done"}) =>
       /\ {RecordsOf(SortedBlock)[k].file : k \in 1..Len(RecordsOf(SortedBlock))}
             = {TableBlock[k].file : k \in 1..Len(TableBlock)}
       /\ \A k \in 1..Len(RecordsOf(SortedBlock)) :
             \E j \in 1..Len(TableBlock) :
                /\ TableBlock[j].file = RecordsOf(SortedBlock)[k].file
                /\ TableBlock[j].mtime = RecordsOf(SortedBlock)[k].mtime
                /\ TableBlock[j].ctime = RecordsOf(SortedBlock)[k].ctime
                /\ TableBlock[j].atime = RecordsOf(SortedBlock)[k].atime

\* ----------------------------------------------------------------- C6
\* C6: a file removed after the walk listed it and before its three
\* timestamps were read never makes the run fail.
C6_VanishedFileSkipped ==
    hist.deleted_at \in {"listed", "getctime", "getmtime", "getatime"} =>
       ~(pc = "failed" /\ error = "FileNotFoundError")

\* ----------------------------------------------------------------- C7
\* C7: a run in which a directory could not be listed never reaches the
\* summary print.
C7_DirectoryErrorAborts ==
    hist.unlisted # {} => pc # "done"

\* ----------------------------------------------------------------- C8
Midnight(day) == day * TicksPerDay

\* C8 as written: an omitted start_date gives midnight seven days before
\* the construction instant and an omitted end_date gives the construction
\* instant itself, whatever include_time is.
C8_DefaultsAreNow ==
    (pc = "ready" /\ runs = 0) =>
       /\ ~Truthy(given.args.start_date) =>
             Lo = Midnight(given.now1 \div TicksPerDay - 7)
       /\ ~Truthy(given.args.end_date) => Up = given.now2

\* C8, amended: an omitted start_date gives midnight seven days before the
\* construction instant; an omitted end_date gives the construction instant
\* when include_time is set, and otherwise the last second (23:59:59) of
\* the construction day with the sub-second part of the construction
\* instant.
C8_DefaultWindow ==
    (pc = "ready" /\ runs = 0) =>
       /\ ~Truthy(given.args.start_date) =>
             Lo = Midnight(given.now1 \div TicksPerDay - 7)
       /\ (~Truthy(given.args.end_date) /\ given.args.include_time) =>
             Up = given.now2
       /\ (~Truthy(given.args.end_date) /\ ~given.args.include_time) =>
             Up = Midnight(given.now2 \div TicksPerDay)
                    + (SecsPerDay - 1) * TicksPerSec + (given.now2 % TicksPerSec)

\* an object built with both bounds omitted and without include_time, at
\* an instant that is neither midnight nor in the last second of the day
C8_Witness ==
    /\ pc = "ready"
    /\ runs = 0
    /\ given.args.start_date = NoneDate
    /\ given.args.end_date = NoneDate
    /\ ~given.args.include_time
    /\ given.now1 % TicksPerDay # 0
    /\ Up # given.now2

\* ----------------------------------------------------------------- C9
\* C9: at every point of the walk, and when the run has failed in it, the
\* primary report ends with this run's header followed by one line per
\* match found so far, in the order of discovery; their number is the
\* running count and, when sorting is requested, the length of the list;
\* the sorted reports are as they were before the run.
C9_IncrementalReport ==
    (runs >= 1 /\ pc \in {"walk", "getctime", "getmtime", "getatime", "filter",
                          "failed", "sort"}) =>
       /\ content["founded_table.txt"][hist.table_from].kind = "header"
       /\ content["founded_table.txt"][hist.table_from].at = starting_at
       /\ Len(TableBlock) = files_founded
       /\ Len(hist.matched) = files_founded
       /\ \A k \in 1..Len(TableBlock) :
             /\ TableBlock[k].kind = "line"
             /\ TableBlock[k].file = file_path(hist.matched[k])
       /\ self.sort_info =>
             /\ Len(files_list) = files_founded
             /\ \A k \in 1..Len(files_list) : files_list[k][1] = TableBlock[k].file
       /\ content["founded_list_sorted.txt"] = hist.list_before
       /\ content["founded_table_sorted.txt"] = hist.sorted_before

\* a run with sorting requested has failed in the walk after two matches,
\* with sorted reports of an earlier run on disk
C9_Witness ==
    /\ pc = "failed"
    /\ self.sort_info
    /\ files_founded >= 2
    /\ hist.sorted_before # <<>>

====
